---- MODULE Spec2Model ----
(***************************************************************************)
(* Geocoin game: the cache generator, the cache-state store (memento),     *)
(* the neighbourhood scan and the save/restore protocol.                   *)
(*                                                                         *)
(* Two programs of the repository are modelled side by side, selected by   *)
(* the variable prog:                                                      *)
(*   "js"  src/unnamed/part_001 lines 1-405 (CacheMemento, localStorage,   *)
(*         geolocation, reset),                                            *)
(*   "ts"  src/src/main.ts (cacheState object, one coin per click).        *)
(*                                                                         *)
(* Latitudes and longitudes are integers counted in units of               *)
(* TILE_DEGREES / SubCell, so that a tile holds SubCell distinct positions *)
(* on each axis; floating-point rounding of lat + i * TILE_DEGREES is not  *)
(* modelled.  Strings built from numbers (`${lat}:${lng}`, `${i},${j}`,    *)
(* [lat, lng].toString()) are modelled by the tuple of their parts.        *)
(***************************************************************************)
EXTENDS Integers, Sequences, FiniteSets, TLC

VARIABLES
  prog,             \* which program runs: "js" or "ts"
  playerLocation,   \* PlayerState.location / let playerLocation
  playerPoints,     \* let playerPoints
  playerCoins,      \* let playerCoins
  cacheStates,      \* CacheMemento's Map / the cacheState object
  movementHistory,  \* let movementHistory (js)
  layers,           \* the cache markers on the map, by spawnCache arguments
  popup,            \* <<>> or <<closure>>: the open popup and what it captured
  localStorage,     \* <<>> or <<blob>>: the "gameState" slot
  watchId,          \* "null" or "watching"
  subscriptions,    \* the watches navigator.geolocation holds for the page
  listeners,        \* TRUE when the module ran to its end (sensor and reset are wired)
  last,             \* the handler that ran last and its outcome
  events,           \* the number of events handled so far
  coordinates,      \* CoordinateFactory's Map, from key to Coordinate object
  created,          \* the number of Coordinate objects constructed so far
  returned,         \* <<>> or <<object>>: what getCoordinate returned last
  spawned           \* the array spawnCoinsAtCache returned last

vars == <<prog, playerLocation, playerPoints, playerCoins, cacheStates,
          movementHistory, layers, popup, localStorage, watchId, subscriptions,
          listeners, last, events, coordinates, created, returned, spawned>>

\* the state of the flyweight factory; no handler of the game calls it
factoryVars == <<coordinates, created, returned, spawned>>

\* the state of the game
gameVars == <<prog, playerLocation, playerPoints, playerCoins, cacheStates,
              movementHistory, layers, popup, localStorage, watchId, subscriptions,
              listeners>>

----------------------------------------------------------------------------
(* Bounds of the model *)

SubCell == 2        \* positions per tile and axis
MaxEvents == 5      \* events (clicks, location updates, page loads) in a run
ClickRadius == 1    \* the player opens popups at most this many tiles away
MaxDraw == 1        \* Math.random() returns 0.0 .. MaxDraw / 10, in tenths

RandomDraws == 0..MaxDraw

----------------------------------------------------------------------------
(* Tunable gameplay parameters *)

TILE_DEGREES == SubCell
NEIGHBORHOOD_SIZE == 8
CACHE_SPAWN_PROBABILITY == 10   \* 0.1, in hundredths

OAKES_CLASSROOM ==
  [lat |-> 369894 * SubCell + (94 * SubCell) \div 100,
   lng |-> (-1220628) * SubCell + (28 * SubCell) \div 100]

\* positions the location feed delivers: another point of the classroom's tile
GeoFixes == { [lat |-> OAKES_CLASSROOM.lat - 1, lng |-> OAKES_CLASSROOM.lng] }

----------------------------------------------------------------------------
(* luck(key): the deterministic oracle, in hundredths (0..99).  A key is   *)
(* the tuple of the values joined by toString().                           *)

TagCode(key) ==
  IF Len(key) = 2 THEN 0
  ELSE IF key[3] = "initialValue" THEN 1 ELSE 2

luck(key) ==
  LET h1 == ((key[1] % 10007) * 139 + (key[2] % 10007) * 43 + TagCode(key) * 23 + 7) % 10007
      h2 == (h1 * h1 + 3 * h1 + 5) % 10007
  IN  h2 % 100

\* Math.floor(luck(key) * n) for luck in hundredths
FloorTimes(l, n) == (l * n) \div 100

\* const generateCoins = () => Math.floor(Math.random() * 10) + 1
generateCoins == { d + 1 : d \in RandomDraws }

\* function _latLngToCell(lat, lng)
latLngToCell(lat, lng) == [i |-> lat \div TILE_DEGREES, j |-> lng \div TILE_DEGREES]

\* leaflet.latLng(lat, lng)
latLng(lat, lng) == [lat |-> lat, lng |-> lng]

----------------------------------------------------------------------------
(* A JavaScript Map (and an object with string keys): the keys in          *)
(* insertion order and the value of each key.                              *)

EmptyMap == [order |-> <<>>, at |-> [k \in {} |-> 0]]

MapHas(m, k) == k \in DOMAIN m.at

MapSet(m, k, v) ==
  IF MapHas(m, k)
  THEN [m EXCEPT !.at[k] = v]
  ELSE [order |-> Append(m.order, k), at |-> (k :> v) @@ m.at]

MapGet(m, k) == m.at[k]

\* Array.from(map.entries())
MapEntries(m) == [n \in 1..Len(m.order) |-> <<m.order[n], m.at[m.order[n]]>>]

MapSize(m) == Len(m.order)

----------------------------------------------------------------------------
(* updateCaches: the markers spawned around the player *)

Offsets == (0 - NEIGHBORHOOD_SIZE)..(NEIGHBORHOOD_SIZE - 1)

\* part_001: for i, j in [-N, N): luck([lat, lng].toString()) < P
updateCaches_js(loc) ==
  { <<loc.lat + o[1] * TILE_DEGREES, loc.lng + o[2] * TILE_DEGREES>> :
      o \in { o \in Offsets \X Offsets :
          luck(<<loc.lat + o[1] * TILE_DEGREES, loc.lng + o[2] * TILE_DEGREES>>)
             < CACHE_SPAWN_PROBABILITY } }

\* main.ts: for i, j in [cell - N, cell + N]: luck([i, j].toString()) < P
updateCaches_ts(loc) ==
  LET playerCell == latLngToCell(loc.lat, loc.lng)
  IN  { c \in ((playerCell.i - NEIGHBORHOOD_SIZE)..(playerCell.i + NEIGHBORHOOD_SIZE))
              \X ((playerCell.j - NEIGHBORHOOD_SIZE)..(playerCell.j + NEIGHBORHOOD_SIZE)) :
          luck(c) < CACHE_SPAWN_PROBABILITY }

\* the positions a run of MaxEvents events can take the player to
Reach ==
  { latLng(lat, lng) :
      lat \in (OAKES_CLASSROOM.lat - 1 - MaxEvents * TILE_DEGREES)
                 ..(OAKES_CLASSROOM.lat + MaxEvents * TILE_DEGREES),
      lng \in (OAKES_CLASSROOM.lng - MaxEvents * TILE_DEGREES)
                 ..(OAKES_CLASSROOM.lng + MaxEvents * TILE_DEGREES) }

\* the two scans, tabulated once over Reach
markers_js == [loc \in Reach |-> updateCaches_js(loc)]
markers_ts == [loc \in Reach |-> updateCaches_ts(loc)]

----------------------------------------------------------------------------
(* saveState / the persisted blob.  A field of a parsed blob is <<v>>, or  *)
(* <<>> when the blob has no such field.                                   *)

saveState_swapped(loc, points, coins, store, history) ==
  << [playerLocation  |-> <<[lat |-> loc.lat, lng |-> loc.lng]>>,
      playerPoints    |-> <<coins>>,
      playerCoins     |-> <<points>>,
      cacheStates     |-> <<MapEntries(store)>>,
      movementHistory |-> <<[n \in 1..Len(history) |->
                               [lat |-> history[n].lat, lng |-> history[n].lng]]>>] >>

saveState(loc, points, coins, store, history) ==
  << [playerLocation  |-> <<[lat |-> loc.lat, lng |-> loc.lng]>>,
      playerPoints    |-> <<points>>,
      playerCoins     |-> <<coins>>,
      cacheStates     |-> <<MapEntries(store)>>,
      movementHistory |-> <<[n \in 1..Len(history) |->
                               [lat |-> history[n].lat, lng |-> history[n].lng]]>>] >>

RECURSIVE RestoreEntries(_, _)
\* cacheStates.forEach(([key, value]) => CacheMemento.saveState(key, value))
RestoreEntries(m, entries) ==
  IF entries = <<>> THEN m
  ELSE RestoreEntries(MapSet(m, Head(entries)[1], Head(entries)[2]), Tail(entries))

----------------------------------------------------------------------------
(* Initial state: the module has run to its end on an empty storage slot *)

Event(op, key, res) == [op |-> op, key |-> key, res |-> res]

Init ==
  /\ prog \in {"js", "ts"}
  /\ playerLocation = OAKES_CLASSROOM
  /\ playerPoints = 0
  /\ playerCoins = 0
  /\ cacheStates = EmptyMap
  /\ movementHistory = <<>>
  /\ layers = IF prog = "js" THEN markers_js[OAKES_CLASSROOM]
                             ELSE markers_ts[OAKES_CLASSROOM]
  /\ popup = <<>>
  /\ localStorage = <<>>
  /\ watchId = "null"
  /\ subscriptions = 0
  /\ listeners = TRUE
  /\ last = Event("init", <<>>, "")
  /\ events = 0
  /\ coordinates = EmptyMap
  /\ created = 0
  /\ returned = <<>>
  /\ spawned = <<>>

Abs(n) == IF n < 0 THEN 0 - n ELSE n

\* the markers the player reaches: at most ClickRadius tiles from the player
Clickable_js(c) ==
  /\ Abs(c[1] - playerLocation.lat) <= ClickRadius * TILE_DEGREES
  /\ Abs(c[2] - playerLocation.lng) <= ClickRadius * TILE_DEGREES

Clickable_ts(c) ==
  LET playerCell == latLngToCell(playerLocation.lat, playerLocation.lng)
  IN  /\ Abs(c[1] - playerCell.i) <= ClickRadius
      /\ Abs(c[2] - playerCell.j) <= ClickRadius

\* every handler counts as one event
Tick == events < MaxEvents /\ events' = events + 1

\* the records the popup initialisation can store for a marker with no entry
InitialRecords_js_drawn(c) ==
  { [pointValue |-> drawn, coinCount |-> drawn] : drawn \in generateCoins }

InitialRecords_js(c) ==
  { [pointValue |-> FloorTimes(luck(<<c[1], c[2], "initialValue">>), 100),
     coinCount  |-> drawn] : drawn \in generateCoins }

InitialRecords_ts(c) ==
  { [pointValue |-> FloorTimes(luck(<<c[1], c[2], "initialValue">>), 100),
     coinCount  |-> FloorTimes(luck(<<c[1], c[2], "coinCount">>), 10)] }

\* if (coinCount > 0) / if (playerCoins > 0)
hasCoins_unguarded(count) == count >= 0
hasCoins(count) == count > 0

\* state.coinCount += n / cacheState[cacheKey].coinCount++
deposited_lost(state, n) == state
deposited(state, n) == [state EXCEPT !.coinCount = state.coinCount + n]

----------------------------------------------------------------------------
(* part_001: the popup of a cache marker *)

\* circle.bindPopup(() => { ... }): runs each time the popup opens
OpenPopup_js(c) ==
  /\ Tick
  /\ UNCHANGED factoryVars
  /\ UNCHANGED subscriptions
  /\ prog = "js"
  /\ c \in layers
  /\ Clickable_js(c)
  /\ \E fresh \in InitialRecords_js(c) :
       LET state == IF MapHas(cacheStates, c) THEN MapGet(cacheStates, c) ELSE fresh
       IN  /\ cacheStates' = IF MapHas(cacheStates, c) THEN cacheStates
                                                       ELSE MapSet(cacheStates, c, state)
           /\ popup' = << [key |-> c, pointValue |-> state.pointValue,
                           coinCount |-> state.coinCount] >>
           /\ last' = Event("open", c, IF MapHas(cacheStates, c) THEN "kept" ELSE "materialized")
  /\ UNCHANGED <<prog, playerLocation, playerPoints, playerCoins, movementHistory,
                 layers, localStorage, watchId, listeners>>

\* #collect click: tests and adds the coinCount captured when the popup opened
Collect_js ==
  /\ Tick
  /\ UNCHANGED factoryVars
  /\ UNCHANGED subscriptions
  /\ prog = "js"
  /\ popup # <<>>
  /\ LET key == popup[1].key
         coinCount == popup[1].coinCount
         state == MapGet(cacheStates, key)
     IN  IF hasCoins(coinCount)
         THEN /\ playerCoins' = playerCoins + coinCount
              /\ cacheStates' = MapSet(cacheStates, key, [state EXCEPT !.coinCount = 0])
              /\ last' = Event("collect", key, "taken")
         ELSE /\ UNCHANGED <<playerCoins, cacheStates>>
              /\ last' = Event("collect", key, "refused")
  /\ UNCHANGED <<prog, playerLocation, playerPoints, movementHistory, layers, popup,
                 localStorage, watchId, listeners>>

\* #deposit click
Deposit_js ==
  /\ Tick
  /\ UNCHANGED factoryVars
  /\ UNCHANGED subscriptions
  /\ prog = "js"
  /\ popup # <<>>
  /\ LET key == popup[1].key
         state == MapGet(cacheStates, key)
     IN  IF hasCoins(playerCoins)
         THEN /\ cacheStates' = MapSet(cacheStates, key,
                                  deposited(state, playerCoins))
              /\ playerCoins' = 0
              /\ last' = Event("deposit", key, "given")
         ELSE /\ UNCHANGED <<playerCoins, cacheStates>>
              /\ last' = Event("deposit", key, "refused")
  /\ UNCHANGED <<prog, playerLocation, playerPoints, movementHistory, layers, popup,
                 localStorage, watchId, listeners>>

\* the player closes the popup (Leaflet removes its DOM)
ClosePopup ==
  /\ Tick
  /\ UNCHANGED factoryVars
  /\ UNCHANGED subscriptions
  /\ popup # <<>>
  /\ popup' = <<>>
  /\ last' = Event("close", popup[1].key, "")
  /\ UNCHANGED <<prog, playerLocation, playerPoints, playerCoins, cacheStates,
                 movementHistory, layers, localStorage, watchId, listeners>>

----------------------------------------------------------------------------
(* part_001: movement, location feed, reset, page load *)

\* the body shared by the north/south/west/east handlers and the watchPosition
\* callback: setLocation, history push, updateCaches (which removes every
\* marker, closing its popup), saveState
Arrive_js_stale(newLocation, op, res) ==
  /\ Tick
  /\ UNCHANGED factoryVars
  /\ UNCHANGED subscriptions
  /\ prog = "js"
  /\ playerLocation' = newLocation
  /\ movementHistory' = Append(movementHistory, playerLocation)
  /\ layers' = markers_js[newLocation]
  /\ popup' = <<>>
  /\ localStorage' = saveState(newLocation, playerPoints, playerCoins, cacheStates,
                               movementHistory')
  /\ last' = Event(op, <<>>, res)
  /\ UNCHANGED <<prog, playerPoints, playerCoins, cacheStates, watchId, listeners>>

Arrive_js(newLocation, op, res) ==
  /\ Tick
  /\ UNCHANGED factoryVars
  /\ UNCHANGED subscriptions
  /\ prog = "js"
  /\ playerLocation' = newLocation
  /\ movementHistory' = Append(movementHistory, newLocation)
  /\ layers' = markers_js[newLocation]
  /\ popup' = <<>>
  /\ localStorage' = saveState(newLocation, playerPoints, playerCoins, cacheStates,
                               movementHistory')
  /\ last' = Event(op, <<>>, res)
  /\ UNCHANGED <<prog, playerPoints, playerCoins, cacheStates, watchId, listeners>>

\* a move that does not push the new location
North_js_unrecorded ==
  /\ Tick
  /\ UNCHANGED factoryVars
  /\ UNCHANGED subscriptions
  /\ prog = "js"
  /\ playerLocation' = latLng(playerLocation.lat + TILE_DEGREES, playerLocation.lng)
  /\ layers' = markers_js[playerLocation']
  /\ popup' = <<>>
  /\ localStorage' = saveState(playerLocation', playerPoints, playerCoins, cacheStates,
                               movementHistory)
  /\ last' = Event("move", <<>>, "north")
  /\ UNCHANGED <<prog, playerPoints, playerCoins, cacheStates, movementHistory, watchId,
                 listeners>>

North_js == Arrive_js(latLng(playerLocation.lat + TILE_DEGREES, playerLocation.lng), "move", "north")
South_js == Arrive_js(latLng(playerLocation.lat - TILE_DEGREES, playerLocation.lng), "move", "south")
West_js == Arrive_js(latLng(playerLocation.lat, playerLocation.lng - TILE_DEGREES), "move", "west")
East_js == Arrive_js(latLng(playerLocation.lat, playerLocation.lng + TILE_DEGREES), "move", "east")

\* #sensor click: starts the watch, or clears it
Sensor_again ==
  /\ Tick
  /\ UNCHANGED factoryVars
  /\ prog = "js"
  /\ listeners
  /\ watchId' = "watching"
  /\ subscriptions' = subscriptions + 1
  /\ last' = Event("sensor", <<>>, watchId')
  /\ UNCHANGED <<prog, playerLocation, playerPoints, playerCoins, cacheStates,
                 movementHistory, layers, popup, localStorage, listeners>>

Sensor ==
  /\ Tick
  /\ UNCHANGED factoryVars
  /\ prog = "js"
  /\ listeners
  /\ watchId' = IF watchId = "null" THEN "watching" ELSE "null"
  /\ subscriptions' = IF watchId = "null" THEN subscriptions + 1 ELSE subscriptions - 1
  /\ last' = Event("sensor", <<>>, watchId')
  /\ UNCHANGED <<prog, playerLocation, playerPoints, playerCoins, cacheStates,
                 movementHistory, layers, popup, localStorage, listeners>>

\* a callback that is still delivered after clearWatch
Position_unwatched(fix) == Arrive_js(latLng(fix.lat, fix.lng), "position", "")

\* the watchPosition success callback
Position(fix) ==
  /\ subscriptions > 0
  /\ Arrive_js(latLng(fix.lat, fix.lng), "position", "")

\* if (confirmation === "yes")
confirmed_unlessCancelled(confirmation) == confirmation # "cancel"
confirmed(confirmation) == confirmation = "yes"

PromptAnswers == {"yes", "no", "cancel"}

\* a reset that forgets CacheMemento.clearStates()
Reset_keepsStore(confirmation) ==
  /\ Tick
  /\ UNCHANGED factoryVars
  /\ UNCHANGED subscriptions
  /\ prog = "js"
  /\ listeners
  /\ IF confirmation = "yes"
     THEN /\ playerPoints' = 0
          /\ playerCoins' = 0
          /\ movementHistory' = <<>>
          /\ layers' = markers_js[playerLocation]
          /\ popup' = <<>>
          /\ localStorage' = saveState(playerLocation, 0, 0, cacheStates, <<>>)
          /\ UNCHANGED cacheStates
     ELSE UNCHANGED <<playerPoints, playerCoins, movementHistory, cacheStates, layers,
                      popup, localStorage>>
  /\ last' = Event("reset", <<>>, confirmation)
  /\ UNCHANGED <<prog, playerLocation, watchId, listeners>>

\* #reset click
Reset(confirmation) ==
  /\ Tick
  /\ UNCHANGED factoryVars
  /\ UNCHANGED subscriptions
  /\ prog = "js"
  /\ listeners
  /\ IF confirmed(confirmation)
     THEN /\ playerPoints' = 0
          /\ playerCoins' = 0
          /\ movementHistory' = <<>>
          /\ cacheStates' = EmptyMap
          /\ layers' = markers_js[playerLocation]
          /\ popup' = <<>>
          /\ localStorage' = saveState(playerLocation, 0, 0, EmptyMap, <<>>)
     ELSE UNCHANGED <<playerPoints, playerCoins, movementHistory, cacheStates, layers,
                      popup, localStorage>>
  /\ last' = Event("reset", <<>>, confirmation)
  /\ UNCHANGED <<prog, playerLocation, watchId, listeners>>

\* loadState, run on a freshly evaluated module: the outcome and the session
\* it leaves.  A TypeError ends the module before the sensor and reset
\* listeners are added.
loadState(slot) ==
  LET fresh == [outcome |-> "none", location |-> OAKES_CLASSROOM, points |-> 0,
                coins |-> 0, store |-> EmptyMap, history |-> <<>>]
  IN  IF slot = <<>> THEN fresh
      ELSE LET state == slot[1]
           IN  IF state.playerLocation = <<>>
               THEN [fresh EXCEPT !.outcome = "TypeError"]
               ELSE LET loc == state.playerLocation[1]
                        part == [fresh EXCEPT
                                   !.location = latLng(loc.lat, loc.lng),
                                   !.points = state.playerPoints[1],
                                   !.coins = state.playerCoins[1],
                                   !.store = IF state.cacheStates = <<>> THEN EmptyMap
                                             ELSE RestoreEntries(EmptyMap, state.cacheStates[1])]
                    IN  IF state.movementHistory = <<>>
                        THEN [part EXCEPT !.outcome = "TypeError"]
                        ELSE [part EXCEPT
                                !.outcome = "restored",
                                !.history = [n \in 1..Len(state.movementHistory[1]) |->
                                               latLng(state.movementHistory[1][n].lat,
                                                      state.movementHistory[1][n].lng)]]

\* the page is loaded again: the module runs from its first line with the
\* storage slot as it is; updateCaches() runs before loadState()
Reload ==
  /\ Tick
  /\ UNCHANGED factoryVars
  /\ prog = "js"
  /\ LET s == loadState(localStorage)
     IN  /\ playerLocation' = s.location
         /\ playerPoints' = s.points
         /\ playerCoins' = s.coins
         /\ cacheStates' = s.store
         /\ movementHistory' = s.history
         /\ listeners' = (s.outcome # "TypeError")
         /\ last' = Event("load", <<>>, s.outcome)
  /\ layers' = markers_js[OAKES_CLASSROOM]
  /\ popup' = <<>>
  /\ watchId' = "null"
  /\ subscriptions' = 0
  /\ UNCHANGED <<prog, localStorage>>

----------------------------------------------------------------------------
(* main.ts *)

\* a popup initialisation without the `if (!cacheState[cacheKey])` test
OpenPopup_ts_fresh(c) ==
  /\ Tick
  /\ UNCHANGED factoryVars
  /\ UNCHANGED subscriptions
  /\ prog = "ts"
  /\ c \in layers
  /\ Clickable_ts(c)
  /\ \E fresh \in InitialRecords_ts(c) :
       /\ cacheStates' = MapSet(cacheStates, c, fresh)
       /\ popup' = << [key |-> c, pointValue |-> fresh.pointValue,
                       coinCount |-> fresh.coinCount] >>
       /\ last' = Event("open", c, IF MapHas(cacheStates, c) THEN "kept" ELSE "materialized")
  /\ UNCHANGED <<prog, playerLocation, playerPoints, playerCoins, movementHistory,
                 layers, localStorage, watchId, listeners>>

\* rect.bindPopup(() => { ... })
OpenPopup_ts(c) ==
  /\ Tick
  /\ UNCHANGED factoryVars
  /\ UNCHANGED subscriptions
  /\ prog = "ts"
  /\ c \in layers
  /\ Clickable_ts(c)
  /\ \E fresh \in InitialRecords_ts(c) :
     LET state == IF MapHas(cacheStates, c) THEN MapGet(cacheStates, c) ELSE fresh
     IN  /\ cacheStates' = IF MapHas(cacheStates, c) THEN cacheStates
                                                     ELSE MapSet(cacheStates, c, state)
         /\ popup' = << [key |-> c, pointValue |-> state.pointValue,
                         coinCount |-> state.coinCount] >>
         /\ last' = Event("open", c, IF MapHas(cacheStates, c) THEN "kept" ELSE "materialized")
  /\ UNCHANGED <<prog, playerLocation, playerPoints, playerCoins, movementHistory,
                 layers, localStorage, watchId, listeners>>

\* playerPoints += cacheState[cacheKey].pointValue
awarded_charged(points, pointValue) == points - pointValue
awarded(points, pointValue) == points + pointValue

\* #collect click: one coin, read from cacheState[cacheKey]
Collect_ts ==
  /\ Tick
  /\ UNCHANGED factoryVars
  /\ UNCHANGED subscriptions
  /\ prog = "ts"
  /\ popup # <<>>
  /\ LET key == popup[1].key
         pointValue == popup[1].pointValue
         state == MapGet(cacheStates, key)
     IN  IF hasCoins(state.coinCount)
         THEN /\ cacheStates' = MapSet(cacheStates, key,
                                  [state EXCEPT !.coinCount = state.coinCount - 1])
              /\ playerCoins' = playerCoins + 1
              /\ playerPoints' = awarded(playerPoints, pointValue)
              /\ last' = Event("collect", key, "taken")
         ELSE /\ UNCHANGED <<playerCoins, playerPoints, cacheStates>>
              /\ last' = Event("collect", key, "refused")
  /\ UNCHANGED <<prog, playerLocation, movementHistory, layers, popup, localStorage,
                 watchId, listeners>>

\* #deposit click: one coin
Deposit_ts ==
  /\ Tick
  /\ UNCHANGED factoryVars
  /\ UNCHANGED subscriptions
  /\ prog = "ts"
  /\ popup # <<>>
  /\ LET key == popup[1].key
         state == MapGet(cacheStates, key)
     IN  IF hasCoins(playerCoins)
         THEN /\ cacheStates' = MapSet(cacheStates, key,
                                  deposited(state, 1))
              /\ playerCoins' = playerCoins - 1
              /\ last' = Event("deposit", key, "given")
         ELSE /\ UNCHANGED <<playerCoins, cacheStates>>
              /\ last' = Event("deposit", key, "refused")
  /\ UNCHANGED <<prog, playerLocation, playerPoints, movementHistory, layers, popup,
                 localStorage, watchId, listeners>>

\* function movePlayer(latOffset, lngOffset)
movePlayer_forgetful(latOffset, lngOffset, res) ==
  LET newLocation == latLng(playerLocation.lat + latOffset, playerLocation.lng + lngOffset)
  IN  /\ Tick
      /\ UNCHANGED factoryVars
      /\ UNCHANGED subscriptions
      /\ prog = "ts"
      /\ playerLocation' = newLocation
      /\ layers' = markers_ts[newLocation]
      /\ popup' = <<>>
      /\ cacheStates' = EmptyMap
      /\ last' = Event("move", <<>>, res)
      /\ UNCHANGED <<prog, playerPoints, playerCoins, movementHistory,
                     localStorage, watchId, listeners>>

movePlayer(latOffset, lngOffset, res) ==
  LET newLocation == latLng(playerLocation.lat + latOffset, playerLocation.lng + lngOffset)
  IN  /\ Tick
      /\ UNCHANGED factoryVars
      /\ UNCHANGED subscriptions
      /\ prog = "ts"
      /\ playerLocation' = newLocation
      /\ layers' = markers_ts[newLocation]
      /\ popup' = <<>>
      /\ last' = Event("move", <<>>, res)
      /\ UNCHANGED <<prog, playerPoints, playerCoins, cacheStates, movementHistory,
                     localStorage, watchId, listeners>>

North_ts == movePlayer(TILE_DEGREES, 0, "north")
South_ts == movePlayer(0 - TILE_DEGREES, 0, "south")
West_ts == movePlayer(0, 0 - TILE_DEGREES, "west")
East_ts == movePlayer(0, TILE_DEGREES, "east")

----------------------------------------------------------------------------

OpenPopup == \E c \in layers : OpenPopup_js(c) \/ OpenPopup_ts(c)
Collect == Collect_js \/ Collect_ts
Deposit == Deposit_js \/ Deposit_ts
LocationUpdate == \E fix \in GeoFixes : Position(fix)
ResetClick == \E confirmation \in PromptAnswers : Reset(confirmation)

Next ==
  \/ OpenPopup
  \/ Collect
  \/ Deposit
  \/ ClosePopup
  \/ North_js
  \/ South_js
  \/ West_js
  \/ East_js
  \/ Sensor
  \/ LocationUpdate
  \/ ResetClick
  \/ Reload
  \/ North_ts
  \/ South_ts
  \/ West_ts
  \/ East_ts

Spec == Init /\ [][Next]_vars

TypeOK ==
  /\ playerCoins \in Nat
  /\ events \in 0..MaxEvents

----------------------------------------------------------------------------
(* The storage slot holding a blob that lacks a field: the blob of another *)
(* version of the page, or one edited by hand.                             *)

BlobFields == {"playerLocation", "cacheStates", "movementHistory"}

Tamper(field) ==
  /\ Tick
  /\ UNCHANGED factoryVars
  /\ UNCHANGED subscriptions
  /\ prog = "js"
  /\ localStorage # <<>>
  /\ localStorage[1][field] # <<>>
  /\ localStorage' = << [localStorage[1] EXCEPT ![field] = <<>>] >>
  /\ last' = Event("tamper", <<>>, field)
  /\ UNCHANGED <<prog, playerLocation, playerPoints, playerCoins, cacheStates,
                 movementHistory, layers, popup, watchId, listeners>>

Corrupt == \E field \in BlobFields : Tamper(field)

NextCorrupt ==
  \/ Next
  \/ Corrupt

SpecCorrupt == Init /\ [][NextCorrupt]_vars

----------------------------------------------------------------------------
(* The flyweight factory and the coins (part_001, both variants) *)

MaxCount == 2       \* spawnCoinsAtCache is called with count 0 .. MaxCount

\* the positions the factory is called with: two of them in one cell on each
\* axis, negative and positive cells
FactoryLats == {0 - 22, 0 - 2, 0 - 1}
FactoryLngs == {4, 5, 24}

\* const cellSize = 0.0001
cellSize == SubCell

\* const key = `${i}:${j}`
CoordinateKey_joined(i, j) == ToString(i) \o ToString(j)
CoordinateKey(i, j) == ToString(i) \o ":" \o ToString(j)

\* CoordinateFactory.getCoordinate on the registry, with n objects constructed
\* so far: the registry, the count and the object returned
getCoordinate(registry, n, lat, lng) ==
  LET i == lat \div cellSize
      j == lng \div cellSize
      key == CoordinateKey(i, j)
      has == MapHas(registry, key)
      set == IF has THEN registry
                    ELSE MapSet(registry, key, [ref |-> n + 1, i |-> i, j |-> j])
  IN  [coordinates |-> set,
       created |-> IF has THEN n ELSE n + 1,
       result |-> MapGet(set, key),
       found |-> IF has THEN "existing" ELSE "new"]

\* getUniqueID() of the first variant
getUniqueID_js_cell(coin) ==
  ToString(coin.coordinate.i) \o ":" \o ToString(coin.coordinate.j)
getUniqueID_js(coin) ==
  ToString(coin.coordinate.i) \o ":" \o ToString(coin.coordinate.j) \o "#"
    \o ToString(coin.serial)

\* getUniqueID() of the TypeScript variant
getUniqueID_ts(coin) ==
  "{i: " \o ToString(coin.coordinate.i) \o ", j: " \o ToString(coin.coordinate.j)
    \o ", serial: " \o ToString(coin.serial) \o "}"

\* for (let serial = 0; serial < count; serial++) coins.push(new Coin(coordinate, serial))
Minted(coordinate, count) ==
  [n \in 1..count |-> [coordinate |-> coordinate, serial |-> n - 1]]

\* a call of CoordinateFactory.getCoordinate(lat, lng)
GetCoordinate(lat, lng) ==
  /\ Tick
  /\ LET r == getCoordinate(coordinates, created, lat, lng)
     IN  /\ coordinates' = r.coordinates
         /\ created' = r.created
         /\ returned' = <<r.result>>
         /\ last' = Event("getCoordinate", <<lat, lng>>, r.found)
  /\ UNCHANGED spawned
  /\ UNCHANGED gameVars

\* a call of spawnCoinsAtCache(lat, lng, count)
spawnCoinsAtCache(lat, lng, count) ==
  /\ Tick
  /\ LET r == getCoordinate(coordinates, created, lat, lng)
     IN  /\ coordinates' = r.coordinates
         /\ created' = r.created
         /\ returned' = <<r.result>>
         /\ spawned' = Minted(r.result, count)
         /\ last' = Event("spawnCoinsAtCache", <<lat, lng, count>>, r.found)
  /\ UNCHANGED gameVars

FactoryCall == \E lat \in FactoryLats, lng \in FactoryLngs : GetCoordinate(lat, lng)

SpawnCall ==
  \E lat \in FactoryLats, lng \in FactoryLngs, count \in 0..MaxCount :
    spawnCoinsAtCache(lat, lng, count)

NextCoins ==
  \/ FactoryCall
  \/ SpawnCall

SpecCoins == Init /\ [][NextCoins]_vars

----------------------------------------------------------------------------
(* Properties *)

\* the stored coinCount of a key
Stored(store, key) == MapGet(store, key).coinCount

\* the coins a collect click is meant to take from a cache holding c coins:
\* all of them in part_001, one in main.ts
Taken(c) == IF prog = "js" THEN c ELSE IF c > 0 THEN 1 ELSE 0

\* the coins a deposit click moves out of a wallet holding w coins
Given(w) == IF prog = "js" THEN w ELSE IF w > 0 THEN 1 ELSE 0

\* C1: every collect click on a cache storing c coins leaves c - n coins in
\* the store and adds n to the wallet, n being the coins the click takes,
\* whatever clicks came before in the same popup.
C1_CollectConserves ==
  [][ last'.op = "collect" =>
        LET key == last'.key
            c == Stored(cacheStates, key)
            n == Taken(c)
        IN  /\ Stored(cacheStates', key) = c - n
            /\ playerCoins' = playerCoins + n ]_vars

\* C2: a collect click on a cache whose stored coinCount is 0 changes neither
\* the wallet, nor the points, nor the store.
C2_CollectFromEmptyIsNoOp ==
  [][ (last'.op = "collect" /\ Stored(cacheStates, last'.key) = 0) =>
        UNCHANGED <<playerCoins, playerPoints, cacheStates>> ]_vars

\* C3: every deposit click moves exactly n coins from the wallet to the stored
\* coinCount of the target cache, and a click with an empty wallet changes
\* neither the wallet nor the store.
C3_DepositConserves ==
  [][ last'.op = "deposit" =>
        LET key == last'.key
            n == Given(playerCoins)
        IN  /\ Stored(cacheStates', key) = Stored(cacheStates, key) + n
            /\ playerCoins' = playerCoins - n
            /\ playerCoins = 0 => UNCHANGED <<playerCoins, cacheStates>> ]_vars

C3_Witness ==
  /\ last.op = "deposit"
  /\ last.res = "given"
  /\ Stored(cacheStates, last.key) >= 2
  /\ MapSize(cacheStates) >= 2

\* C4: the wallet and the coinCount of every store entry are never negative.
C4_CountersNonNegative ==
  /\ playerCoins >= 0
  /\ \A key \in DOMAIN cacheStates.at : Stored(cacheStates, key) >= 0

C4_Witness ==
  /\ last.op = "collect"
  /\ last.res = "refused"
  /\ Stored(cacheStates, last.key) = 0
  /\ playerCoins = 0

\* the set of (key, record) entries of a store
EntrySet(store) == { MapEntries(store)[n] : n \in 1..MapSize(store) }

\* C5: loadState applied to the blob saveState writes for the current session
\* and store gives back the same location, points, coins, history (in order)
\* and the same set of store entries.
C5_RoundTrip ==
  prog = "js" =>
    LET s == loadState(saveState(playerLocation, playerPoints, playerCoins,
                                 cacheStates, movementHistory))
    IN  /\ s.outcome = "restored"
        /\ s.location = playerLocation
        /\ s.points = playerPoints
        /\ s.coins = playerCoins
        /\ s.history = movementHistory
        /\ EntrySet(s.store) = EntrySet(cacheStates)

C5_Witness ==
  /\ last.op = "load"
  /\ last.res = "restored"
  /\ MapSize(cacheStates) >= 2
  /\ Len(movementHistory) >= 1
  /\ playerCoins > 0
  /\ \E key \in DOMAIN cacheStates.at : key[1] > 0 /\ key[2] < 0

\* the slot holds a blob without the cacheStates field
LacksCacheStates(slot) == slot # <<>> /\ slot[1].cacheStates = <<>>

\* C6: loading a blob that lacks the cacheStates field is reported as a
\* CorruptStateError and leaves a fresh default session, with the page still
\* running.
C6_CorruptBlobRejected ==
  (last.op = "load" /\ LacksCacheStates(localStorage)) =>
    /\ last.res = "CorruptStateError"
    /\ playerPoints = 0
    /\ playerCoins = 0
    /\ cacheStates = EmptyMap
    /\ movementHistory = <<>>
    /\ listeners

\* the handler that ran last changed the session or the store
Mutated ==
  \/ last.op \in {"move", "position"}
  \/ last.op = "open" /\ last.res = "materialized"
  \/ last.op = "collect" /\ last.res = "taken"
  \/ last.op = "deposit" /\ last.res = "given"
  \/ last.op = "reset" /\ last.res = "yes"

\* C7: after every event that changes the session or the store, the storage
\* slot holds the snapshot of the current session and store.
C7_SnapshotFresh ==
  (prog = "js" /\ Mutated) =>
    localStorage = saveState(playerLocation, playerPoints, playerCoins,
                             cacheStates, movementHistory)

\* the event is one that runs updateCaches
ScanRan(e) == e.op \in {"move", "position"} \/ (e.op = "reset" /\ e.res = "yes")

\* the cells of a set of markers
CacheCells(markers) ==
  IF prog = "js" THEN { latLngToCell(c[1], c[2]) : c \in markers }
                 ELSE { [i |-> c[1], j |-> c[2]] : c \in markers }

\* the scan the module runs at start-up, from the classroom
StartupScan == IF prog = "js" THEN markers_js[OAKES_CLASSROOM]
                              ELSE markers_ts[OAKES_CLASSROOM]

\* C8: existence depends on the cell only: a scan run from any location of
\* the classroom's cell finds caches in the same cells as the start-up scan.
C8_ExistenceByCell ==
  [][ (ScanRan(last')
       /\ latLngToCell(playerLocation'.lat, playerLocation'.lng)
            = latLngToCell(OAKES_CLASSROOM.lat, OAKES_CLASSROOM.lng)) =>
        CacheCells(layers') = CacheCells(StartupScan) ]_vars

\* C9: whenever a popup materialises the record of a cell, the record is the
\* one every materialisation of that cell yields.
C9_InitialRecordRederivable ==
  (last.op = "open" /\ last.res = "materialized") =>
    \A record \in (IF prog = "js" THEN InitialRecords_js(last.key)
                                  ELSE InitialRecords_ts(last.key)) :
       MapGet(cacheStates, last.key) = record

\* the candidates within NEIGHBORHOOD_SIZE of the player on both axes, both
\* ends included, that pass the existence test
InclusiveScan(loc) ==
  LET R == (0 - NEIGHBORHOOD_SIZE)..NEIGHBORHOOD_SIZE
      playerCell == latLngToCell(loc.lat, loc.lng)
  IN  IF prog = "js"
      THEN { c \in { <<loc.lat + o[1] * TILE_DEGREES, loc.lng + o[2] * TILE_DEGREES>> :
                       o \in R \X R } : luck(c) < CACHE_SPAWN_PROBABILITY }
      ELSE { c \in { <<playerCell.i + o[1], playerCell.j + o[2]>> : o \in R \X R } :
               luck(c) < CACHE_SPAWN_PROBABILITY }

\* C10: a scan examines the (2R+1) x (2R+1) candidates around the player and
\* returns exactly those that pass the existence test.
C10_ScanWindowInclusive ==
  [][ ScanRan(last') => layers' = InclusiveScan(playerLocation') ]_vars

\* C11: after a confirmed reset the store is empty, the points and coins are
\* 0, the history is empty, and the blob the reset wrote records that state.
C11_ResetClears ==
  (last.op = "reset" /\ last.res = "yes") =>
    /\ cacheStates = EmptyMap
    /\ playerPoints = 0
    /\ playerCoins = 0
    /\ movementHistory = <<>>
    /\ localStorage # <<>>
    /\ localStorage[1].playerPoints = <<0>>
    /\ localStorage[1].playerCoins = <<0>>
    /\ localStorage[1].cacheStates = << <<>> >>
    /\ localStorage[1].movementHistory = << <<>> >>
    /\ localStorage[1].playerLocation = <<[lat |-> playerLocation.lat,
                                           lng |-> playerLocation.lng]>>

C11_Witness ==
  /\ last.op = "reset"
  /\ last.res = "yes"
  /\ playerLocation # OAKES_CLASSROOM
  /\ events >= 4

\* the pointValue the generator gives the cache of a key
PointValueOf(key) == FloorTimes(luck(<<key[1], key[2], "initialValue">>), 100)

\* C12: the pointValue of a store entry is the one generated for its cell, in
\* every state in which the entry exists: no collect, deposit, move, save or
\* load changes it, and a reset followed by a new materialisation gives it
\* again.
C12_PointValueImmutable ==
  /\ [] (\A key \in DOMAIN cacheStates.at :
           MapGet(cacheStates, key).pointValue = PointValueOf(key))
  /\ [][ \A key \in DOMAIN cacheStates.at \cap DOMAIN cacheStates'.at :
           MapGet(cacheStates', key).pointValue = MapGet(cacheStates, key).pointValue ]_vars

C12_Witness ==
  /\ last.op = "load"
  /\ last.res = "restored"
  /\ \E key \in DOMAIN cacheStates.at :
       /\ Stored(cacheStates, key) \notin generateCoins
       /\ MapGet(cacheStates, key).pointValue > 0

\* C15: playerPoints never decreases under play: a collect leaves it equal or
\* larger, a deposit or a move leaves it exactly as it was.
C15_PointsMonotone ==
  [][ /\ last'.op = "collect" => playerPoints' >= playerPoints
      /\ last'.op \in {"deposit", "move"} => playerPoints' = playerPoints ]_vars

C15_Witness ==
  /\ last.op = "move"
  /\ playerPoints > 0
  /\ playerCoins = 0

\* C16: a location-feed update is one event: when its handler is done the
\* player is at the delivered position, the history has grown by exactly that
\* position, appended last, the markers are the scan of that position, and
\* the blob records the state the handler left.
C16_PositionAtomic ==
  [][ last'.op = "position" =>
        /\ \E fix \in GeoFixes : playerLocation' = latLng(fix.lat, fix.lng)
        /\ movementHistory' = Append(movementHistory, playerLocation')
        /\ layers' = updateCaches_js(playerLocation')
        /\ localStorage' = saveState(playerLocation', playerPoints', playerCoins',
                                     cacheStates', movementHistory')
        /\ UNCHANGED <<playerPoints, playerCoins, cacheStates>> ]_vars

C16_Witness ==
  /\ last.op = "position"
  /\ Len(movementHistory) >= 2
  /\ cacheStates # EmptyMap

\* C17: the sensor click that clears the watch changes nothing of the session,
\* the store or the blob, and no location update is handled while the watch
\* is cleared; only another sensor click starts it again.
C17_Unsubscribe ==
  [][ /\ (last'.op = "sensor" /\ watchId = "watching") =>
           /\ watchId' = "null"
           /\ UNCHANGED <<playerLocation, playerPoints, playerCoins, movementHistory,
                          cacheStates, localStorage>>
      /\ last'.op = "position" => watchId = "watching"
      /\ (watchId = "null" /\ watchId' # "null") => last'.op = "sensor" ]_vars

C17_Witness ==
  /\ last.op = "sensor"
  /\ last.res = "null"
  /\ \E fix \in GeoFixes : playerLocation = latLng(fix.lat, fix.lng)
  /\ localStorage # <<>>

\* C19: a move or a location update leaves every store entry, playerCoins and
\* playerPoints unchanged, no handler of the loaded page other than a
\* confirmed reset removes an entry, and a popup opened on an entry shows the
\* coinCount the entry holds, however far the player has walked in between.
C19_StoreSurvivesMoves ==
  [][ /\ last'.op \in {"move", "position"} =>
           UNCHANGED <<cacheStates, playerCoins, playerPoints>>
      /\ (last'.op # "load" /\ \E key \in DOMAIN cacheStates.at : ~MapHas(cacheStates', key)) =>
           (last'.op = "reset" /\ last'.res = "yes")
      /\ (last'.op = "open" /\ last'.res = "kept") =>
           popup'[1].coinCount = Stored(cacheStates, last'.key) ]_vars

C19_Witness ==
  /\ last.op = "open"
  /\ last.res = "kept"
  /\ Len(movementHistory) >= 2
  /\ Stored(cacheStates, last.key) \notin
       { r.coinCount : r \in InitialRecords_js(last.key) \cup InitialRecords_ts(last.key) }

\* the keys a step adds to the store
Materialized == { key \in DOMAIN cacheStates'.at : ~MapHas(cacheStates, key) }

\* the store was cleared or loaded by the step
ClearedOrLoaded == last'.op = "load" \/ (last'.op = "reset" /\ last'.res = "yes")

\* the popup of a cell that has an entry is opened: the record stays
OpenKeeps ==
  (last'.op = "open" /\ last'.res = "kept") =>
    /\ MapHas(cacheStates, last'.key)
    /\ cacheStates' = cacheStates

\* C18 as stated: an entry exists only if its popup was opened since the store
\* was last cleared or loaded, so the store is empty right after a clear or a
\* load and gains a key only in the step that opens the popup of that key.
C18_OpenedSinceClearOrLoad ==
  [][ /\ ClearedOrLoaded => cacheStates' = EmptyMap
      /\ ~ClearedOrLoaded => \A key \in Materialized : last'.op = "open" /\ last'.key = key
      /\ OpenKeeps ]_vars

\* C18, amended: an entry exists only if its popup was opened since the store
\* was last cleared, or if loadState restored it from the blob; a scan
\* (move, location update, reset, page load) adds no entry of its own, and
\* opening the popup of a cell that has an entry leaves the entry unchanged.
C18_LazyMaterialization ==
  [][ /\ (last'.op = "reset" /\ last'.res = "yes") => cacheStates' = EmptyMap
      /\ last'.op = "load" =>
           \A key \in DOMAIN cacheStates'.at :
             /\ localStorage # <<>>
             /\ localStorage[1].cacheStates # <<>>
             /\ \E n \in 1..Len(localStorage[1].cacheStates[1]) :
                  localStorage[1].cacheStates[1][n] = <<key, MapGet(cacheStates', key)>>
      /\ last'.op # "load" => \A key \in Materialized : last'.op = "open" /\ last'.key = key
      /\ OpenKeeps ]_vars

\* the popup of a restored entry is opened: the markers are still those of the
\* page load, which only happens after loadState has restored another location
C18_Witness ==
  /\ last.op = "open"
  /\ last.res = "kept"
  /\ prog = "js"
  /\ layers # markers_js[playerLocation]
  /\ localStorage # <<>>
  /\ localStorage[1].cacheStates = << MapEntries(cacheStates) >>

\* the coins of a sequence of store entries
RECURSIVE SumCoins(_)
SumCoins(entries) ==
  IF entries = <<>> THEN 0 ELSE Head(entries)[2].coinCount + SumCoins(Tail(entries))

\* the coins in the wallet and in the caches of the store
TotalCoins(coins, store) == coins + SumCoins(MapEntries(store))

\* C20: a collect or a deposit leaves playerCoins plus the coinCount of all
\* store entries unchanged, and leaves the entry of every cell other than the
\* clicked one unchanged.
C20_CoinsConserved ==
  [][ last'.op \in {"collect", "deposit"} =>
        /\ TotalCoins(playerCoins', cacheStates') = TotalCoins(playerCoins, cacheStates)
        /\ DOMAIN cacheStates'.at = DOMAIN cacheStates.at
        /\ \A key \in DOMAIN cacheStates.at \ {last'.key} :
             MapGet(cacheStates', key) = MapGet(cacheStates, key) ]_vars

\* the cell a call floors its position to
CallCell(e) == [i |-> e.key[1] \div cellSize, j |-> e.key[2] \div cellSize]

FactoryCalled(e) == e.op \in {"getCoordinate", "spawnCoinsAtCache"}

\* C13: getCoordinate returns the registry's object for the cell the position
\* floors to, with that cell's indices, so two calls for one cell return the
\* same object; the registry has one Coordinate per key, the entry of key
\* "i:j" has the indices i and j, and no entry is removed or replaced.
C13_CanonicalCoordinate ==
  /\ [] (\A key \in DOMAIN coordinates.at :
           key = CoordinateKey(MapGet(coordinates, key).i, MapGet(coordinates, key).j))
  /\ [] (\A m, n \in 1..MapSize(coordinates) :
           (coordinates.order[m] = coordinates.order[n]
              \/ MapGet(coordinates, coordinates.order[m]).ref
                 = MapGet(coordinates, coordinates.order[n]).ref) => m = n)
  /\ [] (FactoryCalled(last) =>
           /\ MapHas(coordinates, CoordinateKey(CallCell(last).i, CallCell(last).j))
           /\ returned = << MapGet(coordinates,
                                   CoordinateKey(CallCell(last).i, CallCell(last).j)) >>
           /\ returned[1].i = CallCell(last).i
           /\ returned[1].j = CallCell(last).j)
  /\ [][ \A key \in DOMAIN coordinates.at :
           /\ MapHas(coordinates', key)
           /\ MapGet(coordinates', key) = MapGet(coordinates, key) ]_vars

\* a second position of a cell is looked up, with other cells registered
C13_Witness ==
  /\ last.op = "getCoordinate"
  /\ last.res = "existing"
  /\ last.key[1] % cellSize # 0
  /\ MapSize(coordinates) >= 3

\* the coins of an array
CoinsOf(array) == { array[n] : n \in 1..Len(array) }

SameToken(a, b) ==
  /\ a.coordinate.i = b.coordinate.i
  /\ a.coordinate.j = b.coordinate.j
  /\ a.serial = b.serial

\* C14: the coins of a call of spawnCoinsAtCache(lat, lng, count) have the
\* serials 0 .. count-1 in turn, and two coins, of one call or of two calls
\* for any cells, have equal getUniqueID strings only if they have the same
\* cell and the same serial.
C14_TokenIdentity ==
  /\ [] (last.op = "spawnCoinsAtCache" =>
           /\ Len(spawned) = last.key[3]
           /\ \A n \in 1..Len(spawned) :
                /\ spawned[n].serial = n - 1
                /\ spawned[n].coordinate.i = CallCell(last).i
                /\ spawned[n].coordinate.j = CallCell(last).j)
  /\ [][ \A a, b \in CoinsOf(spawned) \cup CoinsOf(spawned') :
           /\ getUniqueID_js(a) = getUniqueID_js(b) => SameToken(a, b)
           /\ getUniqueID_ts(a) = getUniqueID_ts(b) => SameToken(a, b) ]_vars

C14_Witness ==
  /\ last.op = "spawnCoinsAtCache"
  /\ Len(spawned) >= 2
  /\ MapSize(coordinates) >= 2
  /\ last.res = "existing"

\* C21: a loadState that fails part-way leaves the player location, the points,
\* the coins, the store and the history as they were before it was called,
\* which on a page load is the state the module has set up by then.
C21_LoadAllOrNothing ==
  (last.op = "load" /\ last.res = "TypeError") =>
    /\ playerLocation = OAKES_CLASSROOM
    /\ playerPoints = 0
    /\ playerCoins = 0
    /\ cacheStates = EmptyMap
    /\ movementHistory = <<>>

\* C22: after every event that sets the player location (a move, a location
\* update, a page load that restores a location) the markers on the map are
\* the scan of the current player location.
C22_MarkersFollowLocation ==
  (last.op \in {"move", "position"} \/ (last.op = "load" /\ last.res = "restored")) =>
    layers = IF prog = "js" THEN updateCaches_js(playerLocation)
                            ELSE updateCaches_ts(playerLocation)

\* C23: movementHistory is empty or ends with the current player location, and
\* a move or a location update appends exactly one element, the new location,
\* and keeps the earlier ones.
C23_HistoryEndsAtLocation ==
  /\ [] (prog = "js" =>
           \/ movementHistory = <<>>
           \/ movementHistory[Len(movementHistory)] = playerLocation)
  /\ [][ (prog = "js" /\ last'.op \in {"move", "position"}) =>
           /\ Len(movementHistory') = Len(movementHistory) + 1
           /\ SubSeq(movementHistory', 1, Len(movementHistory)) = movementHistory ]_vars

\* a history of several moves is restored by a page load
C23_Witness ==
  /\ last.op = "load"
  /\ last.res = "restored"
  /\ Len(movementHistory) >= 2
  /\ movementHistory[1] # movementHistory[Len(movementHistory)]

\* C24: a reset whose prompt returns anything but "yes" changes neither the
\* points, the coins, the history, the store, the player location nor the
\* blob; a confirmed reset leaves the player location unchanged.
C24_UnconfirmedResetIsNoOp ==
  [][ /\ (last'.op = "reset" /\ last'.res # "yes") =>
           UNCHANGED <<playerPoints, playerCoins, movementHistory, cacheStates,
                       playerLocation, localStorage>>
      /\ last'.op = "reset" => playerLocation' = playerLocation ]_vars

\* the prompt is answered with another text while there is something to erase
C24_Witness ==
  /\ last.op = "reset"
  /\ last.res = "no"
  /\ playerCoins > 0
  /\ movementHistory # <<>>
  /\ cacheStates # EmptyMap

\* C25: at most one location-feed subscription is active at any time, watchId
\* is non-null exactly when one is active, a sensor click with none active
\* starts exactly one and a sensor click with one active cancels it, whatever
\* other events come in between.
C25_OneSubscription ==
  /\ [] (subscriptions \in {0, 1} /\ (watchId # "null" <=> subscriptions = 1))
  /\ [][ last'.op = "sensor" =>
           IF subscriptions = 0
           THEN subscriptions' = 1 /\ watchId' # "null"
           ELSE subscriptions' = 0 /\ watchId' = "null" ]_vars

\* the feed is subscribed to again after it delivered a position and was
\* cancelled
C25_Witness ==
  /\ last.op = "sensor"
  /\ last.res = "watching"
  /\ subscriptions = 1
  /\ events >= 4
  /\ \E fix \in GeoFixes : playerLocation = latLng(fix.lat, fix.lng)

====
